---- MODULE Spec2Model ----
(***************************************************************************)
(* The stack-map writer (StackMaps) and reader (StackMapSection) of        *)
(* lib/CodeGen/StackMaps.cpp.                                              *)
(*                                                                         *)
(* 64-bit quantities (constants, IDs, stack sizes, location offsets) are   *)
(* little-endian tuples of 8 bytes, so that isInt<32>, the truncation of   *)
(* EmitIntValue(v, n) and the reader's fixed-width reads keep their width. *)
(* Small unsigned quantities (sizes, register numbers, counts, indices)    *)
(* are naturals.                                                           *)
(***************************************************************************)
EXTENDS Integers, Sequences, FiniteSets, TLC

(***************************************************************************)
(* Bytes and fixed-width words                                             *)
(***************************************************************************)
Byte == 0..255

\* The low w bytes (w <= 8) of a natural n < 2^31, little endian: what
\* EmitIntValue(n, w) writes for a small unsigned value.
LE(n, w) ==
  [i \in 1..w |-> CASE i = 1 -> n % 256
                    [] i = 2 -> (n \div 256) % 256
                    [] i = 3 -> (n \div 65536) % 256
                    [] i = 4 -> (n \div 16777216) % 256
                    [] OTHER -> 0]

\* A sign-extended 64-bit word from its four low bytes.
SExt32(b) == b \o [i \in 1..4 |-> IF b[4] >= 128 THEN 255 ELSE 0]

\* The low w bytes of a word: what EmitIntValue(v, w) writes.
Trunc(v, w) == SubSeq(v, 1, w)

\* The natural a little-endian byte tuple of at most 3 significant bytes
\* stands for (higher bytes are zero in every use).
ToNat(b) ==
  (IF Len(b) >= 1 THEN b[1] ELSE 0)
  + (IF Len(b) >= 2 THEN 256 * b[2] ELSE 0)
  + (IF Len(b) >= 3 THEN 65536 * b[3] ELSE 0)

\* Are all bytes above the third zero (so that ToNat is exact)?
SmallWord(b) == \A i \in 4..Len(b) : b[i] = 0

Last(s) == s[Len(s)]

RECURSIVE Flatten(_)
Flatten(ss) == IF ss = << >> THEN << >> ELSE Head(ss) \o Flatten(Tail(ss))

\* UINT64_MAX and UINT16_MAX as the code uses them.
UINT64_MAX == [i \in 1..8 |-> 255]
UINT16_MAX == 65535

\* isInt<32> applied to the value cut to 32 bits first (always true).
isInt32OfTruncated(v) == SExt32(Trunc(v, 4)) = SExt32(Trunc(SExt32(Trunc(v, 4)), 4))

\* isUInt<32> in place of isInt<32>.
isUInt32(v) == \A i \in 5..8 : v[i] = 0

\* isInt<32>(x): the 64-bit value equals the sign extension of its low half.
isInt32(v) == v = SExt32(Trunc(v, 4))

(***************************************************************************)
(* External collaborators: the register catalog (TargetRegisterInfo) and   *)
(* the data layout, fixed to a small x86-64-like target.                   *)
(*   dwarf  : TRI->getDwarfRegNum(Reg, false), negative when there is none *)
(*   supers : the super-register chain MCSuperRegIterator walks            *)
(*   size   : TRI->getMinimalPhysRegClass(Reg)->getSize()                  *)
(*   suboff : getSubRegIdxOffset(getSubRegIndex(root, Reg)), 0 for a root  *)
(* Register 0 is no register.                                              *)
(***************************************************************************)
RegTable ==
  << [name |-> "RAX",  dwarf |-> 0,  supers |-> << >>,        size |-> 8,  suboff |-> 0],
     [name |-> "RDX",  dwarf |-> 1,  supers |-> << >>,        size |-> 8,  suboff |-> 0],
     [name |-> "EAX",  dwarf |-> -2, supers |-> <<1>>,        size |-> 4,  suboff |-> 0],
     [name |-> "RBP",  dwarf |-> 6,  supers |-> << >>,        size |-> 8,  suboff |-> 0],
     [name |-> "AX",   dwarf |-> -2, supers |-> <<3, 1>>,     size |-> 2,  suboff |-> 0],
     [name |-> "XMM0", dwarf |-> 17, supers |-> << >>,        size |-> 16, suboff |-> 0],
     [name |-> "AL",   dwarf |-> -2, supers |-> <<5, 3, 1>>,  size |-> 1,  suboff |-> 0],
     [name |-> "AH",   dwarf |-> -2, supers |-> <<5, 3, 1>>,  size |-> 1,  suboff |-> 8] >>

\* TRI->getNumRegs(): register numbers are 0 .. NumRegs - 1.
NumRegs == Len(RegTable) + 1
PhysRegs == 1..Len(RegTable)
RegNamed(n) == CHOOSE r \in PhysRegs : RegTable[r].name = n

\* TRI->isSuperRegister(RegA, RegB): RegB is a super-register of RegA.
isSuperRegister(RegA, RegB) ==
  /\ RegA \in PhysRegs
  /\ \E i \in 1..Len(RegTable[RegA].supers) : RegTable[RegA].supers[i] = RegB

\* AP.TM.getDataLayout()->getPointerSizeInBits()
PointerSizeInBits == 64

\* Go up the super-register chain until we hit a valid dwarf register
\* number; -1 stands for the failed assertion "Invalid Dwarf register number".
RECURSIVE DwarfWalk(_, _, _)
DwarfWalk(RegNo, SR, i) ==
  IF i <= Len(SR) /\ RegNo < 0
  THEN DwarfWalk(RegTable[SR[i]].dwarf, SR, i + 1)
  ELSE RegNo

getDwarfRegNum(Reg) ==
  IF Reg \notin PhysRegs THEN -1
  ELSE LET RegNo == DwarfWalk(RegTable[Reg].dwarf, RegTable[Reg].supers, 1)
       IN IF RegNo >= 0 THEN RegNo ELSE -1

(***************************************************************************)
(* Locations and live-out registers                                        *)
(***************************************************************************)
\* Location::LocationType, in the encoding the serializer documents.
Unprocessed == 0
Register == 1
Direct == 2
Indirect == 3
Constant == 4
ConstantIndex == 5

Location(LocType, Size, Reg, Offset) ==
  [LocType |-> LocType, Size |-> Size, Reg |-> Reg, Offset |-> Offset]

\* A live-out register; Valid is used only during the merge pass.
LiveOutReg(Reg, RegNo, Size) ==
  [Reg |-> Reg, RegNo |-> RegNo, Size |-> Size, Valid |-> TRUE]

MarkInvalid(LO) == [LO EXCEPT !.Valid = FALSE]
IsInvalid(LO) == ~LO.Valid

Max(a, b) == IF a >= b THEN a ELSE b

\* Create a live-out register record for the given register Reg.
createLiveOutReg(Reg) ==
  LiveOutReg(Reg, getDwarfRegNum(Reg), RegTable[Reg].size)

(***************************************************************************)
(* parseRegisterLiveOutMask                                                *)
(***************************************************************************)
\* The candidates in the order the first loop pushes them: one per set bit,
\* by ascending register number.
RECURSIVE LiveOutCandidates(_, _)
LiveOutCandidates(Mask, Reg) ==
  IF Reg = NumRegs THEN << >>
  ELSE (IF Reg \in Mask THEN << createLiveOutReg(Reg) >> ELSE << >>)
       \o LiveOutCandidates(Mask, Reg + 1)

\* std::sort with operator< comparing RegNo only: every arrangement of the
\* elements that is non-decreasing in RegNo is a possible result (the sort is
\* not stable).  S is the set of positions of v still to be placed.
RECURSIVE SortOrders(_, _)
SortOrders(v, S) ==
  IF S = {} THEN { << >> }
  ELSE LET least == { i \in S : \A j \in S : v[i].RegNo <= v[j].RegNo }
       IN UNION { { << v[i] >> \o t : t \in SortOrders(v, S \ {i}) } : i \in least }

\* The merge without I->Size = std::max(I->Size, II->Size).
RECURSIVE MergeOuterKeepSize(_, _)
RECURSIVE MergeInnerKeepSize(_, _, _)
MergeInnerKeepSize(v, I, II) ==
  IF II = Len(v) + 1 THEN MergeOuterKeepSize(v, I + 1)
  ELSE IF v[I].RegNo # v[II].RegNo THEN MergeOuterKeepSize(v, II)
       ELSE MergeInnerKeepSize([v EXCEPT ![II] = MarkInvalid(@)], I, II + 1)
MergeOuterKeepSize(v, I) ==
  IF I = Len(v) + 1 THEN v ELSE MergeInnerKeepSize(v, I, I + 1)

\* The merge loops over iterators I and II (positions 1 .. E - 1, E past the
\* end).  MergeInner is the inner for loop, MergeOuter the outer one.
RECURSIVE MergeOuter(_, _)
RECURSIVE MergeInner(_, _, _)
MergeInner(v, I, II) ==
  LET E == Len(v) + 1 IN
  IF II = E
  THEN MergeOuter(v, I + 1)                 \* inner loop ran out: ++I
  ELSE IF v[I].RegNo # v[II].RegNo
       THEN MergeOuter(v, (II - 1) + 1)     \* I = --II; break; ++I
       ELSE LET sz == Max(v[I].Size, v[II].Size)
                rg == IF isSuperRegister(v[I].Reg, v[II].Reg)
                      THEN v[II].Reg ELSE v[I].Reg
                w == [v EXCEPT ![I] = [@ EXCEPT !.Size = sz, !.Reg = rg],
                               ![II] = MarkInvalid(@)]
            IN MergeInner(w, I, II + 1)

MergeOuter(v, I) ==
  IF I = Len(v) + 1 THEN v ELSE MergeInner(v, I, I + 1)

\* LiveOuts.erase(std::remove_if(..., LiveOutReg::IsInvalid), ...)
EraseInvalid(v) == SelectSeq(v, LAMBDA LO : ~IsInvalid(LO))

\* All results parseRegisterLiveOutMask can return for a mask (the set of
\* registers whose bit is set).  ok = FALSE: createLiveOutReg hit the
\* assertion of getDwarfRegNum (a register with no DWARF number, or bit 0).
parseRegisterLiveOutMask(Mask) ==
  IF \E r \in Mask : getDwarfRegNum(r) < 0
  THEN { [ok |-> FALSE, LiveOuts |-> << >>] }
  ELSE LET cands == LiveOutCandidates(Mask, 0)
       IN { [ok |-> TRUE, LiveOuts |-> EraseInvalid(MergeOuter(s, 1))] :
              s \in SortOrders(cands, 1..Len(cands)) }

(***************************************************************************)
(* Machine operands and parseOperand                                       *)
(***************************************************************************)
NoWord == << >>

\* MachineOperand: an immediate, a register, or a register live-out mask.
Imm(v) == [kind |-> "imm", imm |-> v, reg |-> 0, isDef |-> FALSE,
           isImplicit |-> FALSE, mask |-> {}]
RegOp(r, def, implicit) == [kind |-> "reg", imm |-> NoWord, reg |-> r, isDef |-> def,
                            isImplicit |-> implicit, mask |-> {}]
RegLiveOut(m) == [kind |-> "liveout", imm |-> NoWord, reg |-> 0, isDef |-> FALSE,
                  isImplicit |-> FALSE, mask |-> m]

\* StackMaps::OpType, the tags that open a multi-operand location.
DirectMemRefOp == LE(0, 8)
IndirectMemRefOp == LE(1, 8)
ConstantOp == LE(2, 8)

\* One result of parseOperand: the advanced iterator (a position in ops), the
\* output buffers, and ok = FALSE when an assertion or llvm_unreachable was hit
\* or the iterator was advanced past the last operand.
ParseResult(next, Locs, LiveOuts, ok) ==
  [next |-> next, Locs |-> Locs, LiveOuts |-> LiveOuts, ok |-> ok]

\* sizeof(int64_t)
SizeofInt64 == 8

\* The location a non-implicit register operand stands for.
RegisterLocation(Reg) ==
  Location(Register, RegTable[Reg].size, getDwarfRegNum(Reg),
           LE(RegTable[Reg].suboff, 8))

\* parseOperand with the IndirectMemRefOp case advancing over three operands
\* only.
parseOperandIndirectShort(ops, MOI, Locs, LiveOuts) ==
  LET op == ops[MOI]
      has(n) == MOI + n <= Len(ops)
      bad == { ParseResult(MOI, Locs, LiveOuts, FALSE) }
  IN
  IF op.kind = "imm" THEN
    CASE op.imm = DirectMemRefOp ->
           IF ~has(2) \/ ops[MOI + 1].kind # "reg" \/ ops[MOI + 2].kind # "imm"
              \/ getDwarfRegNum(ops[MOI + 1].reg) < 0
           THEN bad
           ELSE { ParseResult(MOI + 3,
                    Append(Locs, Location(Direct, PointerSizeInBits \div 8,
                                          getDwarfRegNum(ops[MOI + 1].reg),
                                          ops[MOI + 2].imm)),
                    LiveOuts, TRUE) }
      [] op.imm = IndirectMemRefOp ->
           IF ~has(3) \/ ops[MOI + 1].kind # "imm" \/ ops[MOI + 2].kind # "reg"
              \/ ops[MOI + 3].kind # "imm"
              \/ ~SmallWord(ops[MOI + 1].imm) \/ ToNat(ops[MOI + 1].imm) = 0
              \/ getDwarfRegNum(ops[MOI + 2].reg) < 0
           THEN bad
           ELSE { ParseResult(MOI + 3,
                    Append(Locs, Location(Indirect, ToNat(ops[MOI + 1].imm),
                                          getDwarfRegNum(ops[MOI + 2].reg),
                                          ops[MOI + 3].imm)),
                    LiveOuts, TRUE) }
      [] op.imm = ConstantOp ->
           IF ~has(1) \/ ops[MOI + 1].kind # "imm"
           THEN bad
           ELSE { ParseResult(MOI + 2,
                    Append(Locs, Location(Constant, SizeofInt64, 0, ops[MOI + 1].imm)),
                    LiveOuts, TRUE) }
      [] OTHER -> bad                        \* llvm_unreachable
  ELSE IF op.kind = "reg" THEN
    IF op.isImplicit
    THEN { ParseResult(MOI + 1, Locs, LiveOuts, TRUE) }
    ELSE IF getDwarfRegNum(op.reg) < 0
         THEN bad
         ELSE { ParseResult(MOI + 1, Append(Locs, RegisterLocation(op.reg)),
                            LiveOuts, TRUE) }
  ELSE \* isRegLiveOut
    { ParseResult(MOI + 1, Locs, r.LiveOuts, r.ok) :
        r \in parseRegisterLiveOutMask(op.mask) }

\* parseOperand(MOI, MOE, Locs, LiveOuts) on the operand list ops, MOI a
\* position in it: the set of possible results (several only through the
\* unstable sort of parseRegisterLiveOutMask).
parseOperand(ops, MOI, Locs, LiveOuts) ==
  LET op == ops[MOI]
      has(n) == MOI + n <= Len(ops)
      bad == { ParseResult(MOI, Locs, LiveOuts, FALSE) }
  IN
  IF op.kind = "imm" THEN
    CASE op.imm = DirectMemRefOp ->
           IF ~has(2) \/ ops[MOI + 1].kind # "reg" \/ ops[MOI + 2].kind # "imm"
              \/ getDwarfRegNum(ops[MOI + 1].reg) < 0
           THEN bad
           ELSE { ParseResult(MOI + 3,
                    Append(Locs, Location(Direct, PointerSizeInBits \div 8,
                                          getDwarfRegNum(ops[MOI + 1].reg),
                                          ops[MOI + 2].imm)),
                    LiveOuts, TRUE) }
      [] op.imm = IndirectMemRefOp ->
           IF ~has(3) \/ ops[MOI + 1].kind # "imm" \/ ops[MOI + 2].kind # "reg"
              \/ ops[MOI + 3].kind # "imm"
              \/ ~SmallWord(ops[MOI + 1].imm) \/ ToNat(ops[MOI + 1].imm) = 0
              \/ getDwarfRegNum(ops[MOI + 2].reg) < 0
           THEN bad
           ELSE { ParseResult(MOI + 4,
                    Append(Locs, Location(Indirect, ToNat(ops[MOI + 1].imm),
                                          getDwarfRegNum(ops[MOI + 2].reg),
                                          ops[MOI + 3].imm)),
                    LiveOuts, TRUE) }
      [] op.imm = ConstantOp ->
           IF ~has(1) \/ ops[MOI + 1].kind # "imm"
           THEN bad
           ELSE { ParseResult(MOI + 2,
                    Append(Locs, Location(Constant, SizeofInt64, 0, ops[MOI + 1].imm)),
                    LiveOuts, TRUE) }
      [] OTHER -> bad                        \* llvm_unreachable
  ELSE IF op.kind = "reg" THEN
    IF op.isImplicit
    THEN { ParseResult(MOI + 1, Locs, LiveOuts, TRUE) }
    ELSE IF getDwarfRegNum(op.reg) < 0
         THEN bad
         ELSE { ParseResult(MOI + 1, Append(Locs, RegisterLocation(op.reg)),
                            LiveOuts, TRUE) }
  ELSE \* isRegLiveOut
    { ParseResult(MOI + 1, Locs, r.LiveOuts, r.ok) :
        r \in parseRegisterLiveOutMask(op.mask) }

\* while (MOI != MOE) MOI = parseOperand(MOI, MOE, Locations, LiveOuts);
\* acc is the result so far; a failed step ends the loop.
RECURSIVE ParseOperands(_, _, _)
ParseOperands(ops, MOE, acc) ==
  IF ~acc.ok \/ acc.next = MOE THEN { acc }
  ELSE IF acc.next > MOE THEN { [acc EXCEPT !.ok = FALSE] }
  ELSE UNION { ParseOperands(ops, MOE, r) :
                 r \in parseOperand(ops, acc.next, acc.Locs, acc.LiveOuts) }

(***************************************************************************)
(* Machine instructions handed to the writer, and the functions they are   *)
(* emitted in                                                              *)
(***************************************************************************)
W(n) == LE(n, 8)
Neg(n) == SExt32([i \in 1..4 |-> IF i = 1 THEN 256 - n ELSE 255])   \* -n, 0 < n < 256
INT32_MAX_W == << 255, 255, 255, 127, 0, 0, 0, 0 >>
INT32_MIN_W == << 0, 0, 0, 128, 255, 255, 255, 255 >>
INT32_MAX_PLUS1 == << 0, 0, 0, 128, 0, 0, 0, 0 >>
INT32_MIN_MINUS1 == << 255, 255, 255, 127, 255, 255, 255, 255 >>
UINT32_MAX_W == << 255, 255, 255, 255, 0, 0, 0, 0 >>
TWO_POW_32 == << 0, 0, 0, 0, 1, 0, 0, 0 >>
TWO_POW_32_PLUS42 == << 42, 0, 0, 0, 1, 0, 0, 0 >>
TWO_POW_32_PLUS16 == << 16, 0, 0, 0, 1, 0, 0, 0 >>

\* CallingConv::AnyReg and CallingConv::C
AnyRegCC == W(13)
CCC == W(0)

MachineInstr(opcode, operands) == [opcode |-> opcode, operands |-> operands]

ConstGroup(v) == << Imm(ConstantOp), Imm(v) >>
DirectGroup(r, off) == << Imm(DirectMemRefOp), RegOp(r, FALSE, FALSE), Imm(off) >>
IndirectGroup(sz, r, off) ==
  << Imm(IndirectMemRefOp), Imm(W(sz)), RegOp(r, FALSE, FALSE), Imm(off) >>

\* STACKMAP <id>, <shadow bytes>, locations...
StackMapInstrs ==
  { MachineInstr("STACKMAP", << Imm(W(7)), Imm(W(0)) >>
       \o ConstGroup(W(42)) \o ConstGroup(TWO_POW_32)
       \o << RegOp(RegNamed("EAX"), FALSE, FALSE) >>),
    MachineInstr("STACKMAP", << Imm(W(9)), Imm(W(0)) >>
       \o ConstGroup(INT32_MAX_PLUS1) \o ConstGroup(TWO_POW_32)
       \o ConstGroup(Neg(1)) \o DirectGroup(RegNamed("RBP"), Neg(16))),
    MachineInstr("STACKMAP", << Imm(W(1)), Imm(W(8)) >>
       \o IndirectGroup(8, RegNamed("RBP"), Neg(16)) \o ConstGroup(W(0))
       \o ConstGroup(INT32_MIN_W) \o ConstGroup(INT32_MAX_W)
       \o << RegLiveOut({RegNamed("RAX"), RegNamed("EAX")}) >>),
    MachineInstr("STACKMAP", << Imm(W(3)), Imm(W(0)) >>),
    \* malformed: an immediate that is no OpType tag, after a large constant
    MachineInstr("STACKMAP", << Imm(W(13)), Imm(W(0)) >>
       \o ConstGroup(TWO_POW_32_PLUS42) \o << Imm(W(7)) >>),
    \* malformed: register 0, which has no DWARF number
    MachineInstr("STACKMAP", << Imm(W(15)), Imm(W(0)) >>
       \o ConstGroup(INT32_MAX_PLUS1) \o << RegOp(0, FALSE, FALSE) >>) }

\* PATCHPOINT [<def>,] <id>, <numBytes>, <target>, <numArgs>, <cc>, args...,
\* locations..., scratch registers
PatchPointInstrs ==
  { MachineInstr("PATCHPOINT",
       << RegOp(RegNamed("RAX"), TRUE, FALSE),
          Imm(W(11)), Imm(W(16)), Imm(W(0)), Imm(W(2)), Imm(AnyRegCC),
          RegOp(RegNamed("RDX"), FALSE, FALSE), RegOp(RegNamed("RBP"), FALSE, FALSE) >>
       \o ConstGroup(INT32_MIN_MINUS1)
       \o << RegLiveOut({RegNamed("AL"), RegNamed("AH"), RegNamed("RDX")}),
             RegOp(RegNamed("AX"), TRUE, TRUE) >>),
    MachineInstr("PATCHPOINT",
       << Imm(UINT64_MAX), Imm(W(16)), Imm(W(0)), Imm(W(0)), Imm(CCC) >>
       \o DirectGroup(RegNamed("RBP"), TWO_POW_32_PLUS16)
       \o ConstGroup(UINT32_MAX_W)
       \o << RegLiveOut({RegNamed("XMM0")}) >>),
    \* a def without anyregcc
    MachineInstr("PATCHPOINT",
       << RegOp(RegNamed("RAX"), TRUE, FALSE),
          Imm(W(17)), Imm(W(16)), Imm(W(0)), Imm(W(1)), Imm(CCC),
          RegOp(RegNamed("RDX"), FALSE, FALSE) >>
       \o ConstGroup(W(42))),
    \* anyregcc without a def
    MachineInstr("PATCHPOINT",
       << Imm(W(19)), Imm(W(16)), Imm(W(0)), Imm(W(1)), Imm(AnyRegCC),
          RegOp(RegNamed("RDX"), FALSE, FALSE) >>
       \o DirectGroup(RegNamed("RBP"), Neg(16))) }

\* STATEPOINT <id>, <numBytes>, <numCallArgs>, <target>, call args..., deopt
\* and gc locations...
StatepointInstrs ==
  { MachineInstr("STATEPOINT",
       << Imm(W(5)), Imm(W(0)), Imm(W(1)), Imm(W(0)),
          RegOp(RegNamed("RDX"), FALSE, FALSE) >>
       \o ConstGroup(TWO_POW_32_PLUS42) \o ConstGroup(TWO_POW_32)
       \o IndirectGroup(4, RegNamed("RBP"), W(8))) }

\* AP.MF, AP.CurrentFnSym and AP.CurrentFnSymForSize at the time of a record
\* call: the function's entry symbol and what its MachineFrameInfo and
\* register info report.
MachineFunction(sym, varSized, realign, stackSize) ==
  [CurrentFnSym |-> sym, hasVarSizedObjects |-> varSized,
   needsStackRealignment |-> realign, StackSize |-> stackSize]

MachineFunctions ==
  { MachineFunction("f", FALSE, FALSE, W(24)),
    MachineFunction("f", TRUE, FALSE, W(24)),
    MachineFunction("g", FALSE, TRUE, W(8)),
    MachineFunction("g", FALSE, FALSE, W(40)) }

(***************************************************************************)
(* The writer's state                                                      *)
(***************************************************************************)
VARIABLES
  CSInfos,       \* the call-site list: CallsiteInfo records, in record order
  ConstPool,     \* MapVector<uint64_t, uint64_t>: <<key, value>> pairs in insertion order
  FnStackSize,   \* MapVector<const MCSymbol *, uint64_t>: <<symbol, size>> pairs
  numLabels,     \* temporary labels created and emitted to the stream so far
  section,       \* the bytes emitted to the stack-map section so far
  tableStart,    \* offset in section of the table the last serialize emitted
  crashed,       \* an assertion or llvm_unreachable ended the process
  parsed,        \* the reader's StackMapSection after parse (NotParsed before)
  lo,            \* a live-out mask and what parseRegisterLiveOutMask returned for it
  em,            \* call sites given by their shape and what serializing them emitted
  po,            \* an operand range and how far parseOperand calls have parsed it
  rd,            \* a buffer handed to the reader and what StackMapSection::parse made of it
  hist           \* history: what the properties compare the state against

vars == << CSInfos, ConstPool, FnStackSize, numLabels, section, tableStart,
           crashed, parsed, lo, em, po, rd, hist >>

\* Record calls the model follows (temporary labels created).
MaxRecords == 2

NotParsed == [done |-> FALSE]

CallsiteInfo(CSOffsetExpr, ID, Locations, LiveOuts) ==
  [CSOffsetExpr |-> CSOffsetExpr, ID |-> ID, Locations |-> Locations,
   LiveOuts |-> LiveOuts]

\* MILabel - AP.CurrentFnSymForSize, left symbolic until it is emitted.
CSOffsetExpr(MILabel, FnSym) == [label |-> MILabel, fn |-> FnSym]

(***************************************************************************)
(* The MapVector operations the writer uses                                *)
(***************************************************************************)
\* The position (from 0) of key k in MapVector m, or Len(m) when absent.
RECURSIVE MapVectorFind(_, _, _)
MapVectorFind(m, k, i) ==
  IF i > Len(m) THEN Len(m)
  ELSE IF m[i][1] = k THEN i - 1 ELSE MapVectorFind(m, k, i + 1)

\* MapVector::insert reporting size() in place of the entry's position.
MapVectorInsertSizeIndex(m, k, v) ==
  LET at == MapVectorFind(m, k, 1)
      after == IF at < Len(m) THEN m ELSE Append(m, << k, v >>)
  IN [map |-> after, index |-> Len(after)]

\* A plain push_back in place of MapVector::insert (no lookup of the key).
MapVectorPushBack(m, k, v) == [map |-> Append(m, << k, v >>), index |-> Len(m)]

\* MapVector::insert(std::make_pair(k, v)): the vector afterwards and
\* Result.first - begin().  An existing key keeps its entry.
MapVectorInsert(m, k, v) ==
  LET at == MapVectorFind(m, k, 1)
  IN IF at < Len(m) THEN [map |-> m, index |-> at]
     ELSE [map |-> Append(m, << k, v >>), index |-> Len(m)]

\* MapVector::operator[](k) = v: overwrite in place, or append.
MapVectorAssign(m, k, v) ==
  LET at == MapVectorFind(m, k, 1)
  IN IF at < Len(m) THEN [m EXCEPT ![at + 1] = << k, v >>]
     ELSE Append(m, << k, v >>)

\* DenseMapInfo<uint64_t>::getEmptyKey() / getTombstoneKey()
EmptyKey == W(0)
TombstoneKey == UINT64_MAX

(***************************************************************************)
(* recordStackMapOpers                                                     *)
(***************************************************************************)
\* Move large constants into the constant pool: the loop over Locations
\* from position i on.  ok = FALSE: the assertion on the keys failed.
RECURSIVE PromoteConstants(_, _, _)
PromoteConstants(Locs, Pool, i) ==
  IF i > Len(Locs) THEN [Locs |-> Locs, Pool |-> Pool, ok |-> TRUE]
  ELSE IF Locs[i].LocType = Constant /\ ~isInt32(Locs[i].Offset)
       THEN IF Locs[i].Offset = EmptyKey \/ Locs[i].Offset = TombstoneKey
            THEN [Locs |-> Locs, Pool |-> Pool, ok |-> FALSE]
            ELSE LET Result == MapVectorInsert(Pool, Locs[i].Offset, Locs[i].Offset)
                 IN PromoteConstants(
                      [Locs EXCEPT ![i] = [@ EXCEPT !.LocType = ConstantIndex,
                                                    !.Offset = W(Result.index)]],
                      Result.map, i + 1)
       ELSE PromoteConstants(Locs, Pool, i + 1)

\* The frame size without the check for stack realignment.
FrameSizeNoRealign(MF) ==
  IF MF.hasVarSizedObjects THEN UINT64_MAX ELSE MF.StackSize

\* The frame size recorded for the current function.
FrameSize(MF) ==
  LET DynamicFrameSize == MF.hasVarSizedObjects \/ MF.needsStackRealignment
  IN IF DynamicFrameSize THEN UINT64_MAX ELSE MF.StackSize

\* The locations and live-outs the operands parse to: the optional result
\* (operand 0, parsed alone) and then the range [MOI, MOE).
ParsedOperands(MI, MOI, MOE, recordResult) ==
  LET ops == MI.operands
      start == ParseResult(MOI, << >>, << >>, TRUE)
      first ==
        IF recordResult
        THEN IF Len(ops) >= 1 /\ ops[1].kind = "reg" /\ ops[1].isDef /\ ~ops[1].isImplicit
             THEN { [r EXCEPT !.next = MOI] : r \in parseOperand(ops, 1, << >>, << >>) }
             ELSE { [start EXCEPT !.ok = FALSE] }   \* "Stackmap has no return value."
        ELSE { start }
  IN UNION { ParseOperands(ops, MOE, r) : r \in first }

\* One outcome of recordStackMapOpers: whether the call returned (ok), whether
\* the operands parsed, whether the assertion on the pool keys held, the three
\* collections as the call left them, and the locations as parsed.
RecordOutcome(ok, parseOk, keyOk, CS, Pool, Fns, parsedLocs) ==
  [ok |-> ok, parseOk |-> parseOk, keyOk |-> keyOk, CSInfos |-> CS,
   ConstPool |-> Pool, FnStackSize |-> Fns, parsedLocs |-> parsedLocs]

\* recordStackMapOpers with the frame size recorded on entry, before the
\* operands are parsed.
recordStackMapOpersFrameFirst(MI, ID, MOI, MOE, recordResult, MF, MILabel) ==
  LET Fns == MapVectorAssign(FnStackSize, MF.CurrentFnSym, FrameSize(MF))
  IN { IF ~p.ok
       THEN RecordOutcome(FALSE, FALSE, TRUE, CSInfos, ConstPool, Fns, p.Locs)
       ELSE LET pr == PromoteConstants(p.Locs, ConstPool, 1)
            IN IF ~pr.ok
               THEN RecordOutcome(FALSE, TRUE, FALSE, CSInfos, pr.Pool, Fns, p.Locs)
               ELSE RecordOutcome(TRUE, TRUE, TRUE,
                      Append(CSInfos,
                             CallsiteInfo(CSOffsetExpr(MILabel, MF.CurrentFnSym), ID,
                                          pr.Locs, p.LiveOuts)),
                      pr.Pool, Fns, p.Locs)
       : p \in ParsedOperands(MI, MOI, MOE, recordResult) }

\* Every outcome of recordStackMapOpers(MI, ID, MOI, MOE, recordResult) in
\* function MF with the fresh label MILabel.  The operands are parsed into
\* locals first; a call that aborts while parsing has touched no collection,
\* one that aborts on the key assertion has touched the pool only.
recordStackMapOpers(MI, ID, MOI, MOE, recordResult, MF, MILabel) ==
  { IF ~p.ok
    THEN RecordOutcome(FALSE, FALSE, TRUE, CSInfos, ConstPool, FnStackSize, p.Locs)
    ELSE LET pr == PromoteConstants(p.Locs, ConstPool, 1)
         IN IF ~pr.ok
            THEN RecordOutcome(FALSE, TRUE, FALSE, CSInfos, pr.Pool, FnStackSize, p.Locs)
            ELSE RecordOutcome(TRUE, TRUE, TRUE,
                   Append(CSInfos,
                          CallsiteInfo(CSOffsetExpr(MILabel, MF.CurrentFnSym), ID,
                                       pr.Locs, p.LiveOuts)),
                   pr.Pool,
                   MapVectorAssign(FnStackSize, MF.CurrentFnSym, FrameSize(MF)),
                   p.Locs)
    : p \in ParsedOperands(MI, MOI, MOE, recordResult) }

(***************************************************************************)
(* The record entry points                                                 *)
(***************************************************************************)
\* PatchPointOpers: the meta operands and the indices derived from them.
IDPos == 0
NBytesPos == 1
TargetPos == 2
NArgPos == 3
CCPos == 4
MetaEnd == 5

\* Operand number idx (from 0) of MI.
getOperand(MI, idx) == MI.operands[idx + 1]

PatchPointHasDef(MI) ==
  /\ getOperand(MI, 0).kind = "reg"
  /\ getOperand(MI, 0).isDef
  /\ ~getOperand(MI, 0).isImplicit

getMetaIdx(MI, Pos) == (IF PatchPointHasDef(MI) THEN 1 ELSE 0) + Pos

PatchPointIsAnyReg(MI) == getOperand(MI, getMetaIdx(MI, CCPos)).imm = AnyRegCC

PatchPointNArgs(MI) == ToNat(getOperand(MI, getMetaIdx(MI, NArgPos)).imm)

\* The locations of an anyregcc patchpoint include its call arguments; the
\* others start after them.
getStackMapStartIdx(MI) ==
  IF PatchPointIsAnyReg(MI) THEN getMetaIdx(MI, 0) + MetaEnd
  ELSE getMetaIdx(MI, 0) + MetaEnd + PatchPointNArgs(MI)

\* StatepointOpers: <id>, <numBytes>, <numCallArgs>, <target>, then the call
\* arguments; the deopt and gc operands run from getVarIdx to the end.
StatepointNCallArgsPos == 2
StatepointMetaEnd == 4
StatepointVarIdx(MI) ==
  ToNat(getOperand(MI, StatepointNCallArgsPos).imm) + StatepointMetaEnd
StatepointID(MI) == getOperand(MI, 0).imm

\* "verify anyregcc" of recordPatchPoint: every argument (and the result) of
\* an anyregcc patchpoint must be in a register.
AnyRegVerified(MI, Locations) ==
  PatchPointIsAnyReg(MI) =>
    LET e == IF PatchPointHasDef(MI) THEN PatchPointNArgs(MI) + 1
             ELSE PatchPointNArgs(MI)
    IN \A i \in 1..e : i <= Len(Locations) /\ Locations[i].LocType = Register

\* The state change of one record call whose recordStackMapOpers ended as r:
\* the label is created and emitted first; the collections are left as the
\* call had them when it returned or when an assertion ended the process.
ApplyRecord(r, MI, MF, verified) ==
  /\ numLabels' = numLabels + 1
  /\ CSInfos' = r.CSInfos
  /\ ConstPool' = r.ConstPool
  /\ FnStackSize' = r.FnStackSize
  /\ crashed' = ~(r.ok /\ verified)
  /\ hist' = IF r.ok
             THEN [hist EXCEPT
                     !.origLocs = Append(@, r.parsedLocs),
                     !.lastMI = MI,
                     !.lastMF = [@ EXCEPT ![MF.CurrentFnSym] = MF]]
             ELSE [hist EXCEPT !.keyAssertFailed = @ \/ ~r.keyOk,
                               !.parseAborted = ~r.parseOk]
  /\ UNCHANGED << section, tableStart, parsed, lo, em, po, rd >>

FnSyms == { MF.CurrentFnSym : MF \in MachineFunctions }
NoMF == [CurrentFnSym |-> "none"]
NoMI == MachineInstr("none", << >>)

recordStackMap ==
  /\ ~crashed /\ numLabels < MaxRecords
  /\ \E MI \in StackMapInstrs, MF \in MachineFunctions :
       LET ID == getOperand(MI, 0).imm
       IN \E r \in recordStackMapOpers(MI, ID, 3, Len(MI.operands) + 1, FALSE,
                                       MF, numLabels + 1) :
            ApplyRecord(r, MI, MF, TRUE)

\* recordPatchPoint recording the result of every patchpoint that has a def.
recordPatchPointAnyDef ==
  /\ ~crashed /\ numLabels < MaxRecords
  /\ \E MI \in PatchPointInstrs, MF \in MachineFunctions :
       LET ID == getOperand(MI, getMetaIdx(MI, IDPos)).imm
           MOI == getStackMapStartIdx(MI) + 1
       IN \E r \in recordStackMapOpers(MI, ID, MOI, Len(MI.operands) + 1,
                                       PatchPointHasDef(MI),
                                       MF, numLabels + 1) :
            ApplyRecord(r, MI, MF, r.ok => AnyRegVerified(MI, Last(r.CSInfos).Locations))

recordPatchPoint ==
  /\ ~crashed /\ numLabels < MaxRecords
  /\ \E MI \in PatchPointInstrs, MF \in MachineFunctions :
       LET ID == getOperand(MI, getMetaIdx(MI, IDPos)).imm
           MOI == getStackMapStartIdx(MI) + 1
       IN \E r \in recordStackMapOpers(MI, ID, MOI, Len(MI.operands) + 1,
                                       PatchPointIsAnyReg(MI) /\ PatchPointHasDef(MI),
                                       MF, numLabels + 1) :
            ApplyRecord(r, MI, MF, r.ok => AnyRegVerified(MI, Last(r.CSInfos).Locations))

recordStatepoint ==
  /\ ~crashed /\ numLabels < MaxRecords
  /\ \E MI \in StatepointInstrs, MF \in MachineFunctions :
       \E r \in recordStackMapOpers(MI, StatepointID(MI), StatepointVarIdx(MI) + 1,
                                    Len(MI.operands) + 1, FALSE, MF, numLabels + 1) :
         ApplyRecord(r, MI, MF, TRUE)

(***************************************************************************)
(* The serializer                                                          *)
(***************************************************************************)
\* cl::opt stackmap-version, cl::init(1)
StackMapVersion == 1

\* What the streamer and the linker make of symbolic values: the address of
\* a function's entry symbol, and the offset of a call site's label from
\* its function's entry.
SymbolValue(sym) == IF sym = "f" THEN W(4096) ELSE W(8192)
OffsetExprValue(expr) == LE(16 * expr.label + (IF expr.fn = "f" THEN 0 ELSE 4), 4)

\* A header that gives the constant count before the function count.
emitStackmapHeaderCountsSwapped(Fns, Pool, CS) ==
  LE(StackMapVersion, 1) \o LE(0, 1) \o LE(0, 2)
  \o LE(Len(Pool), 4) \o LE(Len(Fns), 4) \o LE(Len(CS), 4)

\* Emit the stackmap header.
emitStackmapHeader(Fns, Pool, CS) ==
  LE(StackMapVersion, 1) \o LE(0, 1) \o LE(0, 2)
  \o LE(Len(Fns), 4) \o LE(Len(Pool), 4) \o LE(Len(CS), 4)

\* Emit the function frame record for each function.
RECURSIVE emitFunctionFrameRecords(_)
emitFunctionFrameRecords(Fns) ==
  IF Fns = << >> THEN << >>
  ELSE SymbolValue(Head(Fns)[1]) \o Trunc(Head(Fns)[2], 8)
       \o emitFunctionFrameRecords(Tail(Fns))

\* Emit the constant pool.
RECURSIVE emitConstantPoolEntries(_)
emitConstantPoolEntries(Pool) ==
  IF Pool = << >> THEN << >>
  ELSE Trunc(Head(Pool)[2], 8) \o emitConstantPoolEntries(Tail(Pool))

\* One location and one live-out register as emitCallsiteEntries writes them.
EmitLocation(Loc) ==
  LE(Loc.LocType, 1) \o LE(Loc.Size, 1) \o LE(Loc.Reg, 2) \o Trunc(Loc.Offset, 4)
EmitLiveOut(LO) == LE(LO.RegNo, 2) \o LE(0, 1) \o LE(LO.Size, 1)

\* The loops over CSLocs and LiveOuts: the entries' bytes one after another
\* (enc is the list of encoded entries, kept as a tuple).
EmitLocations(Locs) ==
  LET enc == [j \in 1..Len(Locs) |-> EmitLocation(Locs[j])] \o << >>
  IN [i \in 1..(8 * Len(Locs)) |-> enc[((i - 1) \div 8) + 1][((i - 1) % 8) + 1]]
EmitLiveOuts(LOs) ==
  LET enc == [j \in 1..Len(LOs) |-> EmitLiveOut(LOs[j])] \o << >>
  IN [i \in 1..(4 * Len(LOs)) |-> enc[((i - 1) \div 4) + 1][((i - 1) % 4) + 1]]

\* Padding to the next multiple of 4 only.
EmitValueToAlignment4(off) == [i \in 1..((4 - (off % 4)) % 4) |-> 0]

\* OS.EmitValueToAlignment(8) at section offset off: zero bytes up to the
\* next multiple of 8.
EmitValueToAlignment(off) == [i \in 1..((8 - (off % 8)) % 8) |-> 0]

\* One call site's bytes with the overflow test including the limit itself.
EmitCallsiteLimitInclusive(CSI, off) ==
  IF Len(CSI.Locations) >= UINT16_MAX \/ Len(CSI.LiveOuts) >= UINT16_MAX
  THEN Trunc(UINT64_MAX, 8) \o OffsetExprValue(CSI.CSOffsetExpr)
       \o LE(0, 2) \o LE(0, 2) \o LE(0, 2) \o LE(0, 2) \o LE(0, 4)
  ELSE LET body == Trunc(CSI.ID, 8) \o OffsetExprValue(CSI.CSOffsetExpr)
                   \o LE(0, 2) \o LE(Len(CSI.Locations), 2)
                   \o EmitLocations(CSI.Locations)
                   \o LE(0, 2) \o LE(Len(CSI.LiveOuts), 2)
                   \o EmitLiveOuts(CSI.LiveOuts)
       IN body \o EmitValueToAlignment(off + Len(body))

\* The bytes emitCallsiteEntries writes for one call site, the section being
\* off bytes long before.
EmitCallsite(CSI, off) ==
  IF Len(CSI.Locations) > UINT16_MAX \/ Len(CSI.LiveOuts) > UINT16_MAX
  THEN Trunc(UINT64_MAX, 8) \o OffsetExprValue(CSI.CSOffsetExpr)
       \o LE(0, 2) \o LE(0, 2) \o LE(0, 2) \o LE(0, 2) \o LE(0, 4)
  ELSE LET body == Trunc(CSI.ID, 8) \o OffsetExprValue(CSI.CSOffsetExpr)
                   \o LE(0, 2) \o LE(Len(CSI.Locations), 2)
                   \o EmitLocations(CSI.Locations)
                   \o LE(0, 2) \o LE(Len(CSI.LiveOuts), 2)
                   \o EmitLiveOuts(CSI.LiveOuts)
       IN body \o EmitValueToAlignment(off + Len(body))

\* The records emitCallsiteEntries writes, one byte string per call site, the
\* section being off bytes long before the first.
RECURSIVE CallsiteRecords(_, _)
CallsiteRecords(CS, off) ==
  IF CS = << >> THEN << >>
  ELSE LET rec == EmitCallsite(Head(CS), off)
       IN << rec >> \o CallsiteRecords(Tail(CS), off + Len(rec))

emitCallsiteEntries(CS, off) == Flatten(CallsiteRecords(CS, off))

\* What one serializeToStackMapSection emits before the call-site records.
SerializedHead(Fns, Pool, CS) ==
  emitStackmapHeader(Fns, Pool, CS)
  \o emitFunctionFrameRecords(Fns)
  \o emitConstantPoolEntries(Pool)

\* serializeToStackMapSection with no call site recorded: the entry
\* assertions hold (or are compiled out) and the call returns.
SerializeNothing ==
  /\ ~crashed
  /\ CSInfos = << >>
  /\ UNCHANGED vars

\* serializeToStackMapSection with no call site recorded and an entry
\* assertion failing ("Expected empty constant pool too!", "Expected empty
\* function record too!").
SerializeAssert ==
  /\ ~crashed
  /\ CSInfos = << >>
  /\ ConstPool # << >> \/ FnStackSize # << >>
  /\ crashed' = TRUE
  /\ UNCHANGED << CSInfos, ConstPool, FnStackSize, numLabels, section, tableStart,
                  parsed, lo, em, po, rd, hist >>

\* Where each of the records recs lies in the section (offset and length),
\* the first starting at off.
RECURSIVE RecordExtents(_, _)
RecordExtents(recs, off) ==
  IF recs = << >> THEN << >>
  ELSE << [at |-> off, len |-> Len(Head(recs))] >>
       \o RecordExtents(Tail(recs), off + Len(Head(recs)))

\* The emitting part of serializeToStackMapSection on a section holding the
\* bytes before: the section afterwards and the extents of the records.
SerializedSection(before, Fns, Pool, CS) ==
  LET head == SerializedHead(Fns, Pool, CS)
      first == Len(before) + Len(head)
      recs == CallsiteRecords(CS, first)
  IN [section |-> before \o head \o Flatten(recs),
      records |-> RecordExtents(recs, first)]

\* History of one emitting serialize: the collections it emitted.
Emitted(Fns, Pool, CS) == [CSInfos |-> CS, ConstPool |-> Pool, FnStackSize |-> Fns]

NothingEmitted == [CSInfos |-> << >>, ConstPool |-> << >>, FnStackSize |-> << >>]

\* serializeToStackMapSection with call sites: emit the table, then clean up.
SerializeEmit ==
  /\ ~crashed
  /\ CSInfos # << >>
  /\ section' = SerializedSection(section, FnStackSize, ConstPool, CSInfos).section
  /\ hist' = [hist EXCEPT !.origLocs = << >>,
                          !.emitted = Emitted(FnStackSize, ConstPool, CSInfos)]
  /\ tableStart' = Len(section)
  /\ CSInfos' = << >>
  /\ ConstPool' = << >>
  /\ UNCHANGED << FnStackSize, numLabels, crashed, parsed, lo, em, po, rd >>

serializeToStackMapSection == SerializeNothing \/ SerializeAssert \/ SerializeEmit

(***************************************************************************)
(* The reader, with its assertions enabled: a failed assertion ends the    *)
(* parse (ok = FALSE).  A reader position is [offset, ok, oob]; oob records *)
(* that a read touched a byte at or beyond len.                            *)
(***************************************************************************)
\* The n bytes at st.offset (bytes beyond the buffer read as 0).
BytesAt(data, st, n) ==
  [i \in 1..n |-> IF st.offset + i <= Len(data) THEN data[st.offset + i] ELSE 0]

\* parse_primitive<Primitive> with sizeof(Primitive) = n: the position after.
\* assert(offset < len); read; offset += n; assert(offset <= len).
parse_primitive(st, len, n) ==
  IF ~st.ok THEN st
  ELSE [offset |-> IF st.offset < len THEN st.offset + n ELSE st.offset,
        ok |-> st.offset < len /\ st.offset + n <= len,
        oob |-> st.oob \/ (st.offset < len /\ st.offset + n > len)]

\* sizeof(LocationRecord)
SizeofLocationRecord == 8

LocationRecord(bytes) ==
  [Type |-> bytes[1], SizeInBytes |-> bytes[2],
   DwarfRegNum |-> ToNat(SubSeq(bytes, 3, 4)), Offset |-> SubSeq(bytes, 5, 8)]

\* LocationRecord::parse: the position after.
\* assert(offset + sizeof <= len); memcpy; offset += sizeof; assert(Type <= 5).
LocationRecordParse(data, st, len) ==
  IF ~st.ok THEN st
  ELSE IF st.offset + SizeofLocationRecord > len
       THEN [st EXCEPT !.ok = FALSE]
       ELSE [st EXCEPT !.offset = @ + SizeofLocationRecord,
                       !.ok = LocationRecord(BytesAt(data, st, SizeofLocationRecord)).Type <= 5]

\* The loop of StackMapRecord::parse over Locations i .. NumLocations.
RECURSIVE ParseLocations(_, _, _, _, _, _)
ParseLocations(data, st, len, i, NumLocations, acc) ==
  IF ~st.ok \/ i > NumLocations THEN [st |-> st, Locations |-> acc]
  ELSE ParseLocations(data, LocationRecordParse(data, st, len), len, i + 1, NumLocations,
                      Append(acc, LocationRecord(BytesAt(data, st, SizeofLocationRecord))))

\* StackMapRecord::parse without the assertion on NumLiveOuts: the count is
\* read and ignored.
StackMapRecordParseIgnoreLiveOuts(data, st0, len) ==
  LET st1 == parse_primitive(st0, len, 8)
      st2 == parse_primitive(st1, len, 4)
      st3 == parse_primitive(st2, len, 2)
      st4a == parse_primitive(st3, len, 2)
      ReservedFlags == ToNat(BytesAt(data, st2, 2))
      NumLocations == ToNat(BytesAt(data, st3, 2))
      st4 == [st4a EXCEPT !.ok = @ /\ ReservedFlags = 0]
      locs == ParseLocations(data, st4, len, 1, NumLocations, << >>)
      st5a == parse_primitive(locs.st, len, 2)
      Padding16 == ToNat(BytesAt(data, locs.st, 2))
      st5 == [st5a EXCEPT !.ok = @ /\ Padding16 = 0]
      st6a == parse_primitive(st5, len, 2)
      st6 == st6a
      st7 == IF st6.ok /\ st6.offset % 8 # 0
             THEN [st6 EXCEPT !.offset = @ + (8 - (@ % 8))]
             ELSE st6
  IN [st |-> st7,
      rec |-> [PatchPointID |-> BytesAt(data, st0, 8),
               InstructionOffset |-> BytesAt(data, st1, 4),
               ReservedFlags |-> ReservedFlags,
               Locations |-> locs.Locations]]

\* StackMapRecord::parse: the position after and the record.
StackMapRecordParse(data, st0, len) ==
  LET st1 == parse_primitive(st0, len, 8)
      st2 == parse_primitive(st1, len, 4)
      st3 == parse_primitive(st2, len, 2)
      st4a == parse_primitive(st3, len, 2)
      ReservedFlags == ToNat(BytesAt(data, st2, 2))
      NumLocations == ToNat(BytesAt(data, st3, 2))
      st4 == [st4a EXCEPT !.ok = @ /\ ReservedFlags = 0]
      locs == ParseLocations(data, st4, len, 1, NumLocations, << >>)
      st5a == parse_primitive(locs.st, len, 2)
      Padding16 == ToNat(BytesAt(data, locs.st, 2))
      st5 == [st5a EXCEPT !.ok = @ /\ Padding16 = 0]
      st6a == parse_primitive(st5, len, 2)
      NumLiveOuts == ToNat(BytesAt(data, st5, 2))
      st6 == [st6a EXCEPT !.ok = @ /\ NumLiveOuts = 0]
      st7 == IF st6.ok /\ st6.offset % 8 # 0
             THEN [st6 EXCEPT !.offset = @ + (8 - (@ % 8))]
             ELSE st6
  IN [st |-> st7,
      rec |-> [PatchPointID |-> BytesAt(data, st0, 8),
               InstructionOffset |-> BytesAt(data, st1, 4),
               ReservedFlags |-> ReservedFlags,
               Locations |-> locs.Locations]]

\* The loop over the function records reading two 32-bit fields per record.
RECURSIVE ParseFnSizeRecords32(_, _, _, _, _, _)
ParseFnSizeRecords32(data, st, len, i, NumFuncs, acc) ==
  IF ~st.ok \/ i > NumFuncs THEN [st |-> st, recs |-> acc]
  ELSE LET s1 == parse_primitive(st, len, 4)
           s2 == parse_primitive(s1, len, 4)
       IN ParseFnSizeRecords32(data, s2, len, i + 1, NumFuncs,
            Append(acc, [FunctionAddr |-> BytesAt(data, st, 4) \o << 0, 0, 0, 0 >>,
                         StackSize |-> BytesAt(data, s1, 4) \o << 0, 0, 0, 0 >>]))

\* The loops of StackMapSection::parse.
RECURSIVE ParseFnSizeRecords(_, _, _, _, _, _)
ParseFnSizeRecords(data, st, len, i, NumFuncs, acc) ==
  IF ~st.ok \/ i > NumFuncs THEN [st |-> st, recs |-> acc]
  ELSE LET s1 == parse_primitive(st, len, 8)
           s2 == parse_primitive(s1, len, 8)
       IN ParseFnSizeRecords(data, s2, len, i + 1, NumFuncs,
            Append(acc, [FunctionAddr |-> BytesAt(data, st, 8),
                         StackSize |-> BytesAt(data, s1, 8)]))

RECURSIVE ParseConstants(_, _, _, _, _, _)
ParseConstants(data, st, len, i, NumConstants, acc) ==
  IF ~st.ok \/ i > NumConstants THEN [st |-> st, vals |-> acc]
  ELSE ParseConstants(data, parse_primitive(st, len, 8), len, i + 1, NumConstants,
                      Append(acc, BytesAt(data, st, 8)))

RECURSIVE ParseRecords(_, _, _, _, _, _)
ParseRecords(data, st, len, i, NumRecords, acc) ==
  IF ~st.ok \/ i > NumRecords THEN [st |-> st, recs |-> acc]
  ELSE LET r == StackMapRecordParse(data, st, len)
       IN ParseRecords(data, r.st, len, i + 1, NumRecords, Append(acc, r.rec))

\* StackMapSection::parse(data, offset, len) on a fresh StackMapSection.
StackMapSectionParse(data, offset, len) ==
  LET st0 == [offset |-> offset, ok |-> TRUE, oob |-> FALSE]
      st1 == parse_primitive(st0, len, 1)
      st2 == parse_primitive(st1, len, 1)
      st3a == parse_primitive(st2, len, 2)
      Version == ToNat(BytesAt(data, st0, 1))
      Reserved8 == ToNat(BytesAt(data, st1, 1))
      Reserved16 == ToNat(BytesAt(data, st2, 2))
      st3 == [st3a EXCEPT !.ok = @ /\ Version = 1 /\ Reserved8 = 0 /\ Reserved16 = 0]
      st4 == parse_primitive(st3, len, 4)
      st5 == parse_primitive(st4, len, 4)
      st6 == parse_primitive(st5, len, 4)
      NumFuncs == ToNat(BytesAt(data, st3, 4))
      NumConstants == ToNat(BytesAt(data, st4, 4))
      NumRecords == ToNat(BytesAt(data, st5, 4))
      fns == ParseFnSizeRecords(data, st6, len, 1, NumFuncs, << >>)
      cns == ParseConstants(data, fns.st, len, 1, NumConstants, << >>)
      rcs == ParseRecords(data, cns.st, len, 1, NumRecords, << >>)
  IN [done |-> TRUE, ok |-> rcs.st.ok, oob |-> rcs.st.oob, offset |-> rcs.st.offset,
      Version |-> Version,
      FnSizeRecords |-> fns.recs, Constants |-> cns.vals, Records |-> rcs.recs]

\* The reader is handed the table the last serialize emitted.
ReaderParse ==
  /\ section # << >>
  /\ ~parsed.done
  /\ LET data == SubSeq(section, tableStart + 1, Len(section))
     IN parsed' = StackMapSectionParse(data, 0, Len(data))
  /\ hist' = [hist EXCEPT !.parsedFrom = hist.emitted,
                          !.parsedLen = Len(section) - tableStart]
  /\ UNCHANGED << CSInfos, ConstPool, FnStackSize, numLabels, section, tableStart,
                  crashed, lo, em, po, rd >>

(***************************************************************************)
(* The writer and the reader together                                      *)
(***************************************************************************)
NoMask == [Mask |-> {}, done |-> FALSE, ok |-> TRUE, LiveOuts |-> << >>]

NoHistory ==
  [origLocs |-> << >>, lastMF |-> [f \in FnSyms |-> NoMF], keyAssertFailed |-> FALSE,
   parseAborted |-> FALSE, lastMI |-> NoMI,
   emitted |-> NothingEmitted, parsedFrom |-> NothingEmitted, parsedLen |-> 0]

WriterInit ==
  /\ CSInfos = << >>
  /\ ConstPool = << >>
  /\ FnStackSize = << >>
  /\ numLabels = 0
  /\ section = << >>
  /\ tableStart = 0
  /\ crashed = FALSE
  /\ parsed = NotParsed
  /\ hist = NoHistory

\* No operand range and no buffer under study.
NoOperands == [ops |-> << >>, MOI |-> 1, Locs |-> << >>, LiveOuts |-> << >>, ok |-> TRUE]
NoBuffer == [given |-> FALSE, done |-> FALSE]

NoShapes == [shapes |-> << >>, done |-> FALSE, section |-> << >>, records |-> << >>]

Init == WriterInit /\ lo = NoMask /\ em = NoShapes /\ po = NoOperands /\ rd = NoBuffer

Next ==
  \/ recordStackMap
  \/ recordPatchPoint
  \/ recordStatepoint
  \/ serializeToStackMapSection
  \/ ReaderParse

Spec == Init /\ [][Next]_vars

(***************************************************************************)
(* parseRegisterLiveOutMask on its own: every mask over the registers that *)
(* have a DWARF number                                                     *)
(***************************************************************************)
InitLiveOut ==
  /\ WriterInit
  /\ lo \in { [NoMask EXCEPT !.Mask = m] : m \in SUBSET PhysRegs }
  /\ em = NoShapes
  /\ po = NoOperands
  /\ rd = NoBuffer

ParseLiveOutMask ==
  /\ ~lo.done
  /\ \E r \in parseRegisterLiveOutMask(lo.Mask) :
       lo' = [Mask |-> lo.Mask, done |-> TRUE, ok |-> r.ok, LiveOuts |-> r.LiveOuts]
  /\ UNCHANGED << CSInfos, ConstPool, FnStackSize, numLabels, section, tableStart,
                  crashed, parsed, em, po, rd, hist >>

SpecLiveOut == InitLiveOut /\ [][ParseLiveOutMask]_vars

(***************************************************************************)
(* The serializer on call sites up to and beyond the 16-bit limits of the  *)
(* record format.  A call site is given by its shape [fn, ID, nbig, nl,    *)
(* nlo]: what recordStackMap leaves in a fresh StackMaps for a STACKMAP    *)
(* with that ID in function fn whose operands are the first nbig of        *)
(* LargeValues as ConstantOp operands, then nl - nbig times ConstantOp 42, *)
(* then a live-out mask of nlo registers, register i of the target having  *)
(* DWARF number i - 1 and an 8-byte class.                                  *)
(***************************************************************************)
LargeValues == << TWO_POW_32, INT32_MAX_PLUS1 >>

Shape(fn, ID, nbig, nl, nlo) == [fn |-> fn, ID |-> ID, nbig |-> nbig, nl |-> nl, nlo |-> nlo]

\* The locations after promotion: the large constants are in the pool in the
\* order of LargeValues.
ShapeLocations(s) ==
  [i \in 1..s.nl |-> IF i <= s.nbig
                     THEN Location(ConstantIndex, SizeofInt64, 0, W(i - 1))
                     ELSE Location(Constant, SizeofInt64, 0, W(42))]
ShapeLiveOuts(s) == [i \in 1..s.nlo |-> LiveOutReg(i, i - 1, 8)]

\* The function the call sites of fn are recorded in.
ShapeMF(fn) ==
  IF fn = "f" THEN MachineFunction("f", FALSE, FALSE, W(24))
  ELSE MachineFunction("g", FALSE, TRUE, W(8))

\* The three collections after the record calls for the shapes, in order.
ShapeCSInfos(shapes) ==
  [k \in 1..Len(shapes) |->
     CallsiteInfo(CSOffsetExpr(k, shapes[k].fn), shapes[k].ID,
                  ShapeLocations(shapes[k]), ShapeLiveOuts(shapes[k]))]
ShapeConstPool(shapes) ==
  LET used == { 0 } \cup { shapes[k].nbig : k \in 1..Len(shapes) }
      n == CHOOSE m \in used : \A u \in used : u <= m
  IN [i \in 1..n |-> << LargeValues[i], LargeValues[i] >>]
RECURSIVE ShapeFnStackSize(_, _, _)
ShapeFnStackSize(shapes, k, acc) ==
  IF k > Len(shapes) THEN acc
  ELSE ShapeFnStackSize(shapes, k + 1,
         MapVectorAssign(acc, shapes[k].fn, FrameSize(ShapeMF(shapes[k].fn))))

\* Call sites within the limits, and call sites at and beyond them.
SmallShapes ==
  { Shape(fn, W(7), nbig, nl, nlo) :
      fn \in { "f", "g" }, nbig \in 0..2, nl \in 0..2, nlo \in 0..1 }
LimitShapes ==
  { Shape("f", W(9), 0, UINT16_MAX, 0), Shape("f", W(9), 0, UINT16_MAX + 1, 0),
    Shape("f", W(9), 0, 1, UINT16_MAX), Shape("f", W(9), 0, 1, UINT16_MAX + 1),
    Shape("f", W(9), 0, UINT16_MAX + 1, UINT16_MAX + 1) }
PlainShape == Shape("g", W(7), 1, 1, 2)

\* Up to MaxRecords call sites within the limits.
SmallLists ==
  UNION { [1..n -> { s \in SmallShapes : s.nbig <= s.nl }] : n \in 1..MaxRecords }
\* A call site at a limit, alone or next to one plain call site.
LimitLists ==
  UNION { { << l >>, << l, PlainShape >>, << PlainShape, l >> } : l \in LimitShapes }

InitEmit ==
  /\ WriterInit
  /\ lo = NoMask
  /\ po = NoOperands
  /\ rd = NoBuffer
  /\ \/ em \in { [NoShapes EXCEPT !.shapes = l] : l \in SmallLists }
     \/ em \in { [NoShapes EXCEPT !.shapes = l] : l \in LimitLists }

\* serializeToStackMapSection on the writer the shapes describe, into an
\* empty section.
SerializeShapes ==
  /\ ~em.done
  /\ LET out == SerializedSection(<< >>, ShapeFnStackSize(em.shapes, 1, << >>),
                                  ShapeConstPool(em.shapes), ShapeCSInfos(em.shapes))
     IN em' = [em EXCEPT !.done = TRUE, !.section = out.section,
                         !.records = out.records]
  /\ UNCHANGED << CSInfos, ConstPool, FnStackSize, numLabels, section, tableStart,
                  crashed, parsed, lo, po, rd, hist >>

SpecEmit == InitEmit /\ [][SerializeShapes]_vars

(***************************************************************************)
(* parseOperand on its own: every well-formed operand range of up to       *)
(* MaxGroups operand groups, parsed by one parseOperand call per step as   *)
(* the loop of recordStackMapOpers does                                    *)
(***************************************************************************)
OperandGroups ==
  { ConstGroup(W(42)),
    ConstGroup(TWO_POW_32),
    DirectGroup(RegNamed("RBP"), Neg(16)),
    IndirectGroup(4, RegNamed("RBP"), W(8)),
    << RegOp(RegNamed("EAX"), FALSE, FALSE) >>,
    << RegOp(RegNamed("AH"), FALSE, FALSE) >>,
    << RegOp(RegNamed("AX"), TRUE, TRUE) >>,
    << RegLiveOut({RegNamed("RAX"), RegNamed("EAX")}) >>,
    << RegLiveOut({RegNamed("AL"), RegNamed("AH"), RegNamed("RDX")}) >>,
    << RegLiveOut({}) >> }

\* Operand groups per range.
MaxGroups == 3

RECURSIVE OperandStreams(_)
OperandStreams(n) ==
  IF n = 0 THEN { << >> }
  ELSE { g \o t : g \in OperandGroups, t \in OperandStreams(n - 1) }

InitParse ==
  /\ WriterInit
  /\ lo = NoMask
  /\ em = NoShapes
  /\ rd = NoBuffer
  /\ \E n \in 1..MaxGroups :
       po \in { [NoOperands EXCEPT !.ops = o] : o \in OperandStreams(n) }

\* MOI = parseOperand(MOI, MOE, Locations, LiveOuts) while MOI != MOE.
ParseOneOperand ==
  /\ po.ok
  /\ po.MOI # Len(po.ops) + 1
  /\ \E r \in parseOperand(po.ops, po.MOI, po.Locs, po.LiveOuts) :
       po' = [ops |-> po.ops, MOI |-> r.next, Locs |-> r.Locs,
              LiveOuts |-> r.LiveOuts, ok |-> r.ok]
  /\ UNCHANGED << CSInfos, ConstPool, FnStackSize, numLabels, section, tableStart,
                  crashed, parsed, lo, em, rd, hist >>

SpecParse == InitParse /\ [][ParseOneOperand]_vars

(***************************************************************************)
(* The reader on its own: tables as the writer lays them out for up to     *)
(* MaxBufferRecords call sites, intact, with one 16-bit field of one       *)
(* record overwritten, or cut short at any length                          *)
(***************************************************************************)
\* Records per table.
MaxBufferRecords == 2

BufferShapes ==
  { s \in { Shape("f", W(7), nbig, nl, nlo) : nbig \in 0..1, nl \in 0..2, nlo \in 0..1 } :
      s.nbig <= s.nl }
BufferLists == UNION { [1..n -> BufferShapes] : n \in 1..MaxBufferRecords }

\* The table serializeToStackMapSection emits for the shapes.
WriterTable(shapes) ==
  SerializedSection(<< >>, ShapeFnStackSize(shapes, 1, << >>),
                    ShapeConstPool(shapes), ShapeCSInfos(shapes))

\* Where the 16-bit fields the reader requires to be zero lie in a record
\* with nl locations: the flags, the padding and the number of live-outs.
ZeroFields == { "flags", "padding", "liveouts" }
FieldOffset(nl, field) ==
  CASE field = "flags" -> 12
    [] field = "padding" -> 16 + SizeofLocationRecord * nl
    [] field = "liveouts" -> 18 + SizeofLocationRecord * nl

\* data with the 16-bit little-endian field at offset at set to value.
Overwrite16(data, at, value) ==
  [i \in 1..Len(data) |->
     IF i = at + 1 THEN value % 256
     ELSE IF i = at + 2 THEN value \div 256
     ELSE data[i]]

Buffer(shapes, k, field, value, data) ==
  [given |-> TRUE, shapes |-> shapes, k |-> k, field |-> field, value |-> value,
   data |-> data, len |-> Len(data), done |-> FALSE, res |-> NotParsed]

IntactBuffers ==
  { Buffer(l, 0, "none", 0, WriterTable(l).section) : l \in BufferLists }
OverwrittenBuffers ==
  UNION { { Buffer(l, k, field, value,
                   Overwrite16(WriterTable(l).section,
                               WriterTable(l).records[k].at + FieldOffset(l[k].nl, field),
                               value)) :
              k \in 1..Len(l), field \in ZeroFields, value \in { 1, 256 } } :
          l \in BufferLists }
TruncatedBuffers ==
  UNION { { Buffer(<< s >>, 0, "cut", 0, SubSeq(WriterTable(<< s >>).section, 1, n)) :
              n \in 0..(Len(WriterTable(<< s >>).section) - 1) } :
          s \in BufferShapes }

InitReader ==
  /\ WriterInit
  /\ lo = NoMask
  /\ em = NoShapes
  /\ po = NoOperands
  /\ \/ rd \in IntactBuffers
     \/ rd \in OverwrittenBuffers
     \/ rd \in TruncatedBuffers

\* StackMapSection::parse(data, offset, len) with offset 0 on the buffer.
ParseBuffer ==
  /\ rd.given
  /\ ~rd.done
  /\ rd' = [rd EXCEPT !.done = TRUE, !.res = StackMapSectionParse(rd.data, 0, rd.len)]
  /\ UNCHANGED << CSInfos, ConstPool, FnStackSize, numLabels, section, tableStart,
                  crashed, parsed, lo, em, po, hist >>

SpecReader == InitReader /\ [][ParseBuffer]_vars

(***************************************************************************)
(* Properties                                                              *)
(***************************************************************************)
\* INT32_MIN <= v <= INT32_MAX for a 64-bit word v, read off its bytes: a
\* non-negative value below 2^31, or a negative one from -2^31 on.
FitsInt32(v) ==
  \/ v[4] < 128 /\ \A i \in 5..8 : v[i] = 0
  \/ v[4] >= 128 /\ \A i \in 5..8 : v[i] = 255

\* The call sites held and, per call site, the positions of its locations.
Sites == 1..Len(CSInfos)
LocsOf(k) == 1..Len(CSInfos[k].Locations)

\* Does the pool hold value v at index idx (from 0)?
PoolHolds(idx, v) ==
  /\ idx < Len(ConstPool)
  /\ ConstPool[idx + 1] = << v, v >>

\* C1: a location parsed from a ConstantOp operand with value v is recorded as
\* Constant with offset v if and only if v fits a signed 32-bit integer, and
\* otherwise as ConstantIndex with the index of v in the constant pool; a
\* location of any other kind is recorded as parsed.
C1_Promotion ==
  /\ Len(hist.origLocs) = Len(CSInfos)
  /\ \A k \in Sites :
       /\ Len(hist.origLocs[k]) = Len(CSInfos[k].Locations)
       /\ \A j \in LocsOf(k) :
            LET o == hist.origLocs[k][j]
                l == CSInfos[k].Locations[j]
            IN IF o.LocType = Constant
               THEN /\ (l.LocType = Constant /\ l.Offset = o.Offset) <=> FitsInt32(o.Offset)
                    /\ ~FitsInt32(o.Offset) =>
                         /\ l.LocType = ConstantIndex
                         /\ SmallWord(l.Offset)
                         /\ PoolHolds(ToNat(l.Offset), o.Offset)
                    /\ l.Size = o.Size /\ l.Reg = o.Reg
               ELSE l = o

\* C1's case: one call site holds a promoted constant, a constant kept in
\* place at each end of the int32 range, and a location of another kind.
C1_Witness ==
  \E k \in Sites :
    /\ \E j \in LocsOf(k) : CSInfos[k].Locations[j].LocType = ConstantIndex
    /\ \E j \in LocsOf(k) : /\ CSInfos[k].Locations[j].LocType = Constant
                            /\ CSInfos[k].Locations[j].Offset = UINT64_MAX
    /\ \E j \in LocsOf(k) : CSInfos[k].Locations[j].LocType = Direct

\* C2: every ConstantIndex location of every call site held indexes the pool
\* in range, and the pool entry is the operand's original 64-bit constant.
C2_IndexValid ==
  \A k \in Sites : \A j \in LocsOf(k) :
    CSInfos[k].Locations[j].LocType = ConstantIndex =>
      /\ SmallWord(CSInfos[k].Locations[j].Offset)
      /\ ToNat(CSInfos[k].Locations[j].Offset) < Len(ConstPool)
      /\ hist.origLocs[k][j].LocType = Constant
      /\ PoolHolds(ToNat(CSInfos[k].Locations[j].Offset), hist.origLocs[k][j].Offset)

\* C2's case: an index handed out by an earlier record call, with the pool
\* grown by a later one.
C2_Witness ==
  /\ Len(CSInfos) >= 2
  /\ \E j \in LocsOf(1) : /\ CSInfos[1].Locations[j].LocType = ConstantIndex
                          /\ CSInfos[1].Locations[j].Offset = W(0)
  /\ \E j \in LocsOf(2) : /\ CSInfos[2].Locations[j].LocType = ConstantIndex
                          /\ ToNat(CSInfos[2].Locations[j].Offset) >= 2

\* The constants out of the int32 range among the ConstantOp operands of the
\* record calls since the last serialize.
LargeConstants ==
  UNION { { hist.origLocs[k][j].Offset :
              j \in { i \in 1..Len(hist.origLocs[k]) :
                        /\ hist.origLocs[k][i].LocType = Constant
                        /\ ~FitsInt32(hist.origLocs[k][i].Offset) } } :
          k \in 1..Len(hist.origLocs) }

\* C9: every occurrence of the same out-of-range constant has the same
\* ConstantIndex offset, and the pool holds exactly one entry per distinct
\* such value.
C9_Interning ==
  /\ Len(ConstPool) = Cardinality(LargeConstants)
  /\ \A k1 \in Sites, k2 \in Sites :
       \A j1 \in LocsOf(k1), j2 \in LocsOf(k2) :
         ( /\ hist.origLocs[k1][j1].LocType = Constant
           /\ hist.origLocs[k2][j2].LocType = Constant
           /\ ~FitsInt32(hist.origLocs[k1][j1].Offset)
           /\ hist.origLocs[k1][j1].Offset = hist.origLocs[k2][j2].Offset )
         => /\ CSInfos[k1].Locations[j1].LocType = ConstantIndex
            /\ CSInfos[k1].Locations[j1] = CSInfos[k2].Locations[j2]

\* C9's case: the same large constant recorded by two record calls, next to
\* other large constants.
C9_Witness ==
  /\ Len(ConstPool) >= 2
  /\ \E k1 \in Sites, k2 \in Sites :
       /\ k1 < k2
       /\ \E j1 \in LocsOf(k1), j2 \in LocsOf(k2) :
            /\ hist.origLocs[k1][j1].LocType = Constant
            /\ ~FitsInt32(hist.origLocs[k1][j1].Offset)
            /\ hist.origLocs[k1][j1].Offset = hist.origLocs[k2][j2].Offset
            /\ hist.origLocs[k2][j2].LocType = Constant

\* C10: the constant pool never holds 0 or ~0 as a key, and the assertion
\* guarding ConstPool.insert never fails.
C10_NoSentinelKeys ==
  /\ ~hist.keyAssertFailed
  /\ \A i \in 1..Len(ConstPool) :
       /\ ConstPool[i][1] # [b \in 1..8 |-> 0]
       /\ ConstPool[i][1] # [b \in 1..8 |-> 255]

\* C10's case: the operands 0 and ~0 were recorded as constants by calls
\* that also promoted other constants into the pool.
C10_Witness ==
  /\ ConstPool # << >>
  /\ \E k \in Sites : \E j \in LocsOf(k) :
       /\ hist.origLocs[k][j].LocType = Constant
       /\ hist.origLocs[k][j].Offset = [b \in 1..8 |-> 255]
  /\ \E k \in Sites : \E j \in LocsOf(k) :
       /\ hist.origLocs[k][j].LocType = Constant
       /\ hist.origLocs[k][j].Offset = [b \in 1..8 |-> 0]

\* Is the frame of MF dynamic (variable-sized objects or stack realignment)?
IsDynamicFrame(MF) == MF.hasVarSizedObjects \/ MF.needsStackRealignment

\* C6: the frame table has exactly one entry per function a call site was
\* recorded in; it is UINT64_MAX if and only if the function's frame was
\* dynamic at its most recent record call, and otherwise the static stack
\* size reported at that call.
C6_FrameTable ==
  /\ \A f \in FnSyms :
       (hist.lastMF[f] # NoMF) <=> (\E i \in 1..Len(FnStackSize) : FnStackSize[i][1] = f)
  /\ \A i \in 1..Len(FnStackSize), j \in 1..Len(FnStackSize) :
       FnStackSize[i][1] = FnStackSize[j][1] => i = j
  /\ \A i \in 1..Len(FnStackSize) :
       /\ FnStackSize[i][1] \in FnSyms
       /\ LET MF == hist.lastMF[FnStackSize[i][1]]
          IN /\ MF # NoMF
             /\ (FnStackSize[i][2] = [b \in 1..8 |-> 255]) <=> IsDynamicFrame(MF)
             /\ ~IsDynamicFrame(MF) => FnStackSize[i][2] = MF.StackSize

\* C6's case: two functions in the table, one recorded with a dynamic frame
\* (stack realignment) and one with a static one.
C6_Witness ==
  /\ Len(FnStackSize) = 2
  /\ \E i \in 1..2 : /\ FnStackSize[i][2] = UINT64_MAX
                     /\ hist.lastMF[FnStackSize[i][1]].needsStackRealignment
  /\ \E i \in 1..2 : FnStackSize[i][2] = W(24)

\* The registers of the mask whose DWARF number is d.
MaskRegsOf(d) == { r \in lo.Mask : getDwarfRegNum(r) = d }

\* C3: the live-outs returned for a mask are strictly increasing in DWARF
\* number, hold an entry for exactly the DWARF numbers of the registers in
\* the mask, and each entry's size is the largest class size among the
\* mask's registers with that DWARF number.
C3_LiveOutMask ==
  lo.done =>
    /\ lo.ok
    /\ \A i \in 1..(Len(lo.LiveOuts) - 1) : lo.LiveOuts[i].RegNo < lo.LiveOuts[i + 1].RegNo
    /\ { lo.LiveOuts[i].RegNo : i \in 1..Len(lo.LiveOuts) }
         = { getDwarfRegNum(r) : r \in lo.Mask }
    /\ \A i \in 1..Len(lo.LiveOuts) :
         /\ \E r \in MaskRegsOf(lo.LiveOuts[i].RegNo) : RegTable[r].size = lo.LiveOuts[i].Size
         /\ \A r \in MaskRegsOf(lo.LiveOuts[i].RegNo) : RegTable[r].size <= lo.LiveOuts[i].Size

\* C3's case: a mask with a register and one of its sub-registers (same DWARF
\* number, the smaller one sorted first) next to registers of other DWARF
\* numbers.
C3_Witness ==
  /\ lo.done
  /\ Len(lo.LiveOuts) = 3
  /\ Cardinality(lo.Mask) >= 5
  /\ lo.LiveOuts[1].Size = 8
  /\ lo.LiveOuts[1].Reg = RegNamed("RAX")
  /\ RegNamed("AH") \in lo.Mask

(***************************************************************************)
(* The emitted table, read back from the section bytes                     *)
(***************************************************************************)
\* The n bytes of sec, and of the section, from offset at on.
BytesOf(sec, at, n) == SubSeq(sec, at + 1, at + n)
SectionBytes(at, n) == BytesOf(section, at, n)

\* A count below 2^16 as a little-endian unsigned field of 2 and of 4 bytes.
U16(n) == << n % 256, (n \div 256) % 256 >>
U32(n) == << n % 256, (n \div 256) % 256, 0, 0 >>
Zeros(n) == [i \in 1..n |-> 0]

\* Does a call site exceed a 16-bit count?
Overflows(CSI) == Len(CSI.Locations) > 65535 \/ Len(CSI.LiveOuts) > 65535

\* The size of a call site's record in the format: id, offset, flags and the
\* two counts with their padding take 20 bytes, a location 8, a live-out 4,
\* and the whole is padded to a multiple of 8; an overflow record is 24 bytes.
RecordBody(CSI) == 20 + 8 * Len(CSI.Locations) + 4 * Len(CSI.LiveOuts)
RecordSize(CSI) ==
  IF Overflows(CSI) THEN 24 ELSE 8 * ((RecordBody(CSI) + 7) \div 8)

\* Where the parts of the last emitted table lie in the section.
FramesAt == tableStart + 16
ConstantsAt == FramesAt + 16 * Len(hist.emitted.FnStackSize)
RecordsAt == ConstantsAt + 8 * Len(hist.emitted.ConstPool)
\* The offset of record k of the call sites CS, the first record being at
\* offset first.
RECURSIVE RecordOffset(_, _, _)
RecordOffset(CS, first, k) ==
  IF k = 1 THEN first ELSE RecordOffset(CS, first, k - 1) + RecordSize(CS[k - 1])
RecordAt(k) == RecordOffset(hist.emitted.CSInfos, RecordsAt, k)

EmittedSites == 1..Len(hist.emitted.CSInfos)

\* C7: a serialize with call sites emits the header (version 1, reserved
\* fields 0, the three counts), then the frame records in insertion order,
\* then the pool values in insertion order, then the call-site records in
\* the order of the record calls, and nothing else.
C7_TableOrder ==
  hist.emitted.CSInfos # << >> =>
    LET E == hist.emitted
    IN /\ SectionBytes(tableStart, 4) = << 1, 0, 0, 0 >>
       /\ SectionBytes(tableStart + 4, 4) = U32(Len(E.FnStackSize))
       /\ SectionBytes(tableStart + 8, 4) = U32(Len(E.ConstPool))
       /\ SectionBytes(tableStart + 12, 4) = U32(Len(E.CSInfos))
       /\ \A i \in 1..Len(E.FnStackSize) :
            /\ SectionBytes(FramesAt + 16 * (i - 1), 8) = SymbolValue(E.FnStackSize[i][1])
            /\ SectionBytes(FramesAt + 16 * (i - 1) + 8, 8) = E.FnStackSize[i][2]
       /\ \A c \in 1..Len(E.ConstPool) :
            SectionBytes(ConstantsAt + 8 * (c - 1), 8) = E.ConstPool[c][2]
       /\ \A k \in EmittedSites :
            /\ SectionBytes(RecordAt(k), 8) = E.CSInfos[k].ID
            /\ SectionBytes(RecordAt(k) + 8, 4) = OffsetExprValue(E.CSInfos[k].CSOffsetExpr)
            /\ \A k2 \in EmittedSites :
                 k < k2 => E.CSInfos[k].CSOffsetExpr.label < E.CSInfos[k2].CSOffsetExpr.label
       /\ RecordAt(Len(E.CSInfos) + 1) = Len(section)

\* C7's case: an emitted table with two functions, several constants and two
\* call sites of different sizes.
C7_Witness ==
  /\ Len(hist.emitted.FnStackSize) = 2
  /\ Len(hist.emitted.ConstPool) >= 2
  /\ Len(hist.emitted.CSInfos) = 2
  /\ RecordSize(hist.emitted.CSInfos[1]) # RecordSize(hist.emitted.CSInfos[2])
  /\ Len(section) = RecordAt(3)

\* The bytes of a location and of a live-out register in a record.
LocationBytes(Loc) ==
  << Loc.LocType, Loc.Size % 256, Loc.Reg % 256, (Loc.Reg \div 256) % 256,
     Loc.Offset[1], Loc.Offset[2], Loc.Offset[3], Loc.Offset[4] >>
LiveOutBytes(LO) == << LO.RegNo % 256, (LO.RegNo \div 256) % 256, 0, LO.Size % 256 >>

\* The record at offset at of sec is the overflow record of call site CSI.
IsSentinelRecord(sec, CSI, at) ==
  /\ BytesOf(sec, at, 8) = << 255, 255, 255, 255, 255, 255, 255, 255 >>
  /\ BytesOf(sec, at + 8, 4) = OffsetExprValue(CSI.CSOffsetExpr)
  /\ BytesOf(sec, at + 12, 12) = Zeros(12)

\* The record at offset at of sec holds the id, counts and contents of CSI.
IsRealRecord(sec, CSI, at) ==
  LET nl == Len(CSI.Locations)
      nlo == Len(CSI.LiveOuts)
  IN /\ BytesOf(sec, at, 8) = CSI.ID
     /\ BytesOf(sec, at + 8, 4) = OffsetExprValue(CSI.CSOffsetExpr)
     /\ BytesOf(sec, at + 12, 2) = Zeros(2)
     /\ BytesOf(sec, at + 14, 2) = U16(nl)
     /\ \A j \in 1..nl :
          BytesOf(sec, at + 16 + 8 * (j - 1), 8) = LocationBytes(CSI.Locations[j])
     /\ BytesOf(sec, at + 16 + 8 * nl, 2) = Zeros(2)
     /\ BytesOf(sec, at + 18 + 8 * nl, 2) = U16(nlo)
     /\ \A j \in 1..nlo :
          BytesOf(sec, at + 20 + 8 * nl + 4 * (j - 1), 4) = LiveOutBytes(CSI.LiveOuts[j])
     /\ BytesOf(sec, at + RecordBody(CSI), RecordSize(CSI) - RecordBody(CSI))
          = Zeros(RecordSize(CSI) - RecordBody(CSI))

\* The call sites the shapes describe, and where their first record lies in
\* the table emitted for them.
ShapeSites == ShapeCSInfos(em.shapes)
ShapeRecordsAt ==
  16 + 16 * Cardinality({ em.shapes[k].fn : k \in 1..Len(em.shapes) })
     + 8 * Len(ShapeConstPool(em.shapes))

\* C4: a call site with more than 65535 locations or live-outs is emitted as
\* the 24-byte record {UINT64_MAX, its offset expression, zeros} and nothing
\* of its contents; every other call site is emitted with its id, counts and
\* contents; the header counts every record.
C4_OverflowSentinel ==
  em.done =>
    LET CS == ShapeSites
    IN /\ BytesOf(em.section, 12, 4) = U32(Len(CS))
       /\ \A k \in 1..Len(CS) :
            IF Overflows(CS[k])
            THEN IsSentinelRecord(em.section, CS[k], RecordOffset(CS, ShapeRecordsAt, k))
            ELSE IsRealRecord(em.section, CS[k], RecordOffset(CS, ShapeRecordsAt, k))
       /\ RecordOffset(CS, ShapeRecordsAt, Len(CS) + 1) = Len(em.section)

\* C4's case: the table emitted for a call site with one location and 65536
\* live-outs, followed by a call site within the limits that has a location
\* and two live-outs.
C4_Witness ==
  /\ em.done
  /\ Len(em.shapes) = 2
  /\ em.shapes[1].nl = 1 /\ em.shapes[1].nlo = 65536
  /\ em.shapes[2].nl = 1 /\ em.shapes[2].nlo = 2
  /\ Len(em.section) = ShapeRecordsAt + 24 + 40
  /\ BytesOf(em.section, ShapeRecordsAt, 8) = UINT64_MAX

\* C5: every call-site record emitted by a serialize, padding included, is a
\* multiple of 8 bytes long and starts at a section offset that is a
\* multiple of 8; the records follow the constants and one another without
\* gaps up to the end of the section.
C5_RecordAlignment ==
  em.done =>
    /\ Len(em.records) = Len(em.shapes)
    /\ \A k \in 1..Len(em.records) :
         /\ em.records[k].len % 8 = 0
         /\ em.records[k].at % 8 = 0
         /\ em.records[k].at = IF k = 1 THEN ShapeRecordsAt
                               ELSE em.records[k - 1].at + em.records[k - 1].len
         /\ BytesOf(em.section, em.records[k].at + 8, 4)
              = OffsetExprValue(CSOffsetExpr(k, em.shapes[k].fn))
    /\ em.records[Len(em.records)].at + em.records[Len(em.records)].len = Len(em.section)

\* C5's case: a table with two functions and a constant, an overflow record
\* and a record whose contents end 4 bytes short of a multiple of 8.
C5_Witness ==
  /\ em.done
  /\ ShapeRecordsAt = 16 + 2 * 16 + 8
  /\ \E k \in 1..Len(em.shapes) : em.shapes[k].nl > 65535
  /\ \E k \in 1..Len(em.shapes) :
       /\ em.shapes[k].nl <= 65535 /\ em.shapes[k].nlo <= 65535
       /\ (20 + 8 * em.shapes[k].nl + 4 * em.shapes[k].nlo) % 8 = 4
       /\ em.records[k].len = 20 + 8 * em.shapes[k].nl + 4 * em.shapes[k].nlo + 4

\* The section the reader's format can hold: no live-outs and at most 65535
\* locations per record.
ReaderFormat(E) ==
  /\ E.CSInfos # << >>
  /\ \A k \in 1..Len(E.CSInfos) :
       /\ E.CSInfos[k].LiveOuts = << >>
       /\ Len(E.CSInfos[k].Locations) <= 65535

\* The reader's view of an emitted location and call site.
AsLocationRecord(Loc) ==
  [Type |-> Loc.LocType, SizeInBytes |-> Loc.Size % 256, DwarfRegNum |-> Loc.Reg % 65536,
   Offset |-> << Loc.Offset[1], Loc.Offset[2], Loc.Offset[3], Loc.Offset[4] >>]
AsStackMapRecord(CSI) ==
  [PatchPointID |-> CSI.ID,
   InstructionOffset |-> OffsetExprValue(CSI.CSOffsetExpr),
   ReservedFlags |-> 0,
   Locations |-> [j \in 1..Len(CSI.Locations) |-> AsLocationRecord(CSI.Locations[j])]]

C11_AllCleared ==
  [][section' # section =>
       (CSInfos' = << >> /\ ConstPool' = << >> /\ FnStackSize' = << >>)]_vars

\* C17: in every state reachable by record and serialize calls on one
\* writer, the entry assertions of serializeToStackMapSection hold: when the
\* call-site list is empty, the constant pool and the function-frame table
\* are empty too.
C17_EntryAssertions ==
  (~crashed /\ CSInfos = << >>) => (ConstPool = << >> /\ FnStackSize = << >>)

(***************************************************************************)
(* The record calls                                                        *)
(***************************************************************************)
\* A step in which a record call aborted while parsing its operands.
ParseAbortStep == ~hist.parseAborted /\ hist'.parseAborted

\* A step in which a record call changed one of the three collections.
RecordMutationStep ==
  \/ Len(CSInfos') > Len(CSInfos)
  \/ Len(ConstPool') > Len(ConstPool)
  \/ (FnStackSize' # FnStackSize)

\* C12: every record call creates its temporary label, and no collection is
\* mutated without it; a call whose operand parsing aborts (unrecognized
\* immediate tag, missing DWARF number) has created the label and has
\* changed none of the call-site list, constant pool and frame table.
C12_LabelFirst ==
  [][/\ RecordMutationStep => numLabels' = numLabels + 1
     /\ ParseAbortStep =>
          /\ numLabels' = numLabels + 1
          /\ UNCHANGED << CSInfos, ConstPool, FnStackSize >>]_vars

\* C12's case: a record call aborted while parsing, after an earlier call
\* had filled all three collections.
C12_Witness ==
  /\ hist.parseAborted
  /\ crashed
  /\ numLabels = 2
  /\ Len(CSInfos) = 1
  /\ ConstPool # << >>
  /\ FnStackSize # << >>

(***************************************************************************)
(* parseOperand                                                            *)
(***************************************************************************)
\* The operand a parseOperand call starts at, and what the call did.
CurrentOp == po.ops[po.MOI]
Advance == po'.MOI - po.MOI
AppendsOne(Loc) == po'.Locs = Append(po.Locs, Loc)

\* C13: on a well-formed operand range each parseOperand call consumes one
\* logical location: a DirectMemRefOp tag advances by 3, IndirectMemRefOp by
\* 4, ConstantOp by 2, each appending one location (Direct with the pointer
\* size, Indirect with the given size, Constant with size 8 and register 0);
\* a non-implicit register advances by 1 and appends one Register location;
\* an implicit register or a live-out mask advances by 1 and appends
\* nothing.  Only a live-out mask changes the live-outs, and it replaces
\* them.  The returned iterator never passes the end of the range.
C13_OneLocationPerCall ==
  [][po' # po =>
       /\ po'.ok
       /\ po'.MOI <= Len(po.ops) + 1
       /\ (CurrentOp.kind # "liveout") => po'.LiveOuts = po.LiveOuts
       /\ CASE CurrentOp.kind = "imm" /\ CurrentOp.imm = DirectMemRefOp ->
                 /\ Advance = 3
                 /\ AppendsOne([LocType |-> Direct, Size |-> PointerSizeInBits \div 8,
                                Reg |-> getDwarfRegNum(po.ops[po.MOI + 1].reg),
                                Offset |-> po.ops[po.MOI + 2].imm])
            [] CurrentOp.kind = "imm" /\ CurrentOp.imm = IndirectMemRefOp ->
                 /\ Advance = 4
                 /\ AppendsOne([LocType |-> Indirect,
                                Size |-> ToNat(po.ops[po.MOI + 1].imm),
                                Reg |-> getDwarfRegNum(po.ops[po.MOI + 2].reg),
                                Offset |-> po.ops[po.MOI + 3].imm])
            [] CurrentOp.kind = "imm" /\ CurrentOp.imm = ConstantOp ->
                 /\ Advance = 2
                 /\ AppendsOne([LocType |-> Constant, Size |-> 8, Reg |-> 0,
                                Offset |-> po.ops[po.MOI + 1].imm])
            [] CurrentOp.kind = "reg" /\ ~CurrentOp.isImplicit ->
                 /\ Advance = 1
                 /\ Len(po'.Locs) = Len(po.Locs) + 1
                 /\ SubSeq(po'.Locs, 1, Len(po.Locs)) = po.Locs
                 /\ Last(po'.Locs).LocType = Register
            [] CurrentOp.kind = "reg" /\ CurrentOp.isImplicit ->
                 /\ Advance = 1
                 /\ po'.Locs = po.Locs
            [] CurrentOp.kind = "liveout" ->
                 /\ Advance = 1
                 /\ po'.Locs = po.Locs
                 /\ \E r \in parseRegisterLiveOutMask(CurrentOp.mask) :
                      po'.LiveOuts = r.LiveOuts]_vars

\* C13's case: a range of three groups parsed to its end in three calls, the
\* last one an indirect location of four operands; the first call replaced
\* the live-outs, the second one skipped an implicit register.
C13_Witness ==
  /\ po.MOI = Len(po.ops) + 1
  /\ Len(po.ops) = 6
  /\ po.ops[1].kind = "liveout"
  /\ po.ops[2].kind = "reg" /\ po.ops[2].isImplicit
  /\ po.ops[3].imm = IndirectMemRefOp
  /\ Len(po.Locs) = 1
  /\ po.Locs[1].LocType = Indirect
  /\ po.LiveOuts # << >>

(***************************************************************************)
(* Recording the result                                                    *)
(***************************************************************************)
\* A step in which a record call added a call site.
RecordedStep == Len(CSInfos') = Len(CSInfos) + 1

\* Where the operand range of a record call starts (a position in the
\* instruction's operand list).
RangeStart(MI) ==
  CASE MI.opcode = "STACKMAP" -> 3
    [] MI.opcode = "PATCHPOINT" -> getStackMapStartIdx(MI) + 1
    [] MI.opcode = "STATEPOINT" -> StatepointVarIdx(MI) + 1

\* The locations of the operand range alone, in stream order.
RangeLocations(MI) ==
  { p.Locs : p \in { q \in ParseOperands(MI.operands, Len(MI.operands) + 1,
                                        ParseResult(RangeStart(MI), << >>, << >>, TRUE)) :
                       q.ok } }

\* C14: recordPatchPoint records the result exactly when the calling
\* convention is AnyReg and the instruction has a def; the location of
\* operand 0 is then the first of the call site's locations, followed by the
\* locations of the operand range in stream order, one location being added
\* for the def.  recordStackMap and recordStatepoint record no result.
C14_ResultRecording ==
  [][RecordedStep =>
       LET MI == hist'.lastMI
           locs == Last(hist'.origLocs)
           withResult == /\ MI.opcode = "PATCHPOINT"
                         /\ PatchPointIsAnyReg(MI)
                         /\ PatchPointHasDef(MI)
       IN /\ Len(Last(CSInfos').Locations) = Len(locs)
          /\ IF withResult
             THEN /\ locs # << >>
                  /\ locs[1] = RegisterLocation(MI.operands[1].reg)
                  /\ Last(CSInfos').Locations[1] = locs[1]
                  /\ Tail(locs) \in RangeLocations(MI)
             ELSE locs \in RangeLocations(MI)]_vars

\* C14's case: a patchpoint with a def and anyregcc (the result recorded
\* first, before its two arguments) next to one with a def and the C
\* convention (no result recorded).
C14_Witness ==
  /\ Len(CSInfos) = 2
  /\ \E k \in 1..2 :
       /\ CSInfos[k].ID = W(11)
       /\ Len(CSInfos[k].Locations) = 4
       /\ CSInfos[k].Locations[1] = RegisterLocation(RegNamed("RAX"))
       /\ CSInfos[k].Locations[2] = RegisterLocation(RegNamed("RDX"))
  /\ \E k \in 1..2 :
       /\ CSInfos[k].ID = W(17)
       /\ Len(CSInfos[k].Locations) = 1
       /\ CSInfos[k].Locations[1].LocType = Constant

(***************************************************************************)
(* The reader on buffers of any content                                    *)
(***************************************************************************)
\* The records of the buffer whose flags, padding or number of live-outs is
\* not zero: the one overwritten, and those the writer emitted with
\* live-out registers.
HasNonZeroField(b) ==
  \/ b.field \in ZeroFields /\ b.value # 0
  \/ b.field # "cut" /\ \E k \in 1..Len(b.shapes) : b.shapes[k].nlo > 0

C16_InBounds ==
  (rd.given /\ rd.done) => (~rd.res.oob /\ rd.res.offset <= rd.len)

====
